---- MODULE Spec2Model ----
(***************************************************************************)
(* Model of the two calculators of compound-grow-calc:                     *)
(*   NetSalaryCalculator        (src/unnamed/part_000)                     *)
(*   CompoundInterestCalculator (src/src/components/NetSalaryChart.tsx)    *)
(*                                                                         *)
(* JavaScript numbers are modelled as exact rationals (a signed numerator  *)
(* of arbitrary size over a product of small factors), so every sum,       *)
(* product, quotient and power below is the exact real value of the        *)
(* expression of the source; IEEE-754 rounding is not modelled.            *)
(***************************************************************************)
EXTENDS Integers, Sequences, FiniteSets, Bags, TLC

----------------------------------------------------------------------------
(* Natural numbers of arbitrary size: little-endian sequences of limbs in  *)
(* base Base, with no leading (high) zero limb; zero is <<>>.              *)

Base == 10^3

SmallMax == 2 * 10^6

RECURSIVE NFromInt(_)
NFromInt(k) ==
    IF k = 0 THEN <<>> ELSE <<k % Base>> \o NFromInt(k \div Base)

Limb(s, i) == IF 1 <= i /\ i <= Len(s) THEN s[i] ELSE 0

\* the highest index in lo..hi at which s is not 0, or 0
RECURSIVE HighLimb(_, _, _)
HighLimb(s, lo, hi) ==
    IF lo > hi THEN 0
    ELSE IF lo = hi THEN (IF s[lo] # 0 THEN lo ELSE 0)
    ELSE LET mid == (lo + hi) \div 2
             up == HighLimb(s, mid + 1, hi)
         IN  IF up # 0 THEN up ELSE HighLimb(s, lo, mid)

NNorm(s) == SubSeq(s, 1, HighLimb(s, 1, Len(s)))

\* the function t over 1..n as a sequence with its values computed
Cols(t) == t \o <<>>

\* limbs from column values t[i] of any size and sign (the total is >= 0):
\* each pass keeps t[i] % Base and moves t[i] \div Base one column up
RECURSIVE NCarry(_)
NCarry(t) ==
    IF \A i \in 1..Len(t) : 0 <= t[i] /\ t[i] < Base THEN NNorm(t)
    ELSE NCarry(Cols([i \in 1..(Len(t) + 1) |->
                        (IF i <= Len(t) THEN t[i] % Base ELSE 0)
                        + (IF i > 1 THEN t[i - 1] \div Base ELSE 0)]))

MaxLen(a, b) == IF Len(a) > Len(b) THEN Len(a) ELSE Len(b)

NAdd(a, b) == NCarry(Cols([i \in 1..MaxLen(a, b) |-> Limb(a, i) + Limb(b, i)]))

\* a - b for a >= b
NSub(a, b) == NCarry(Cols([i \in 1..Len(a) |-> a[i] - Limb(b, i)]))

\* -1, 0, 1 as a < b, a = b, a > b
NCmp(a, b) ==
    IF Len(a) < Len(b) THEN -1
    ELSE IF Len(a) > Len(b) THEN 1
    ELSE LET h == HighLimb(Cols([i \in 1..Len(a) |-> a[i] - b[i]]), 1, Len(a))
         IN  IF h = 0 THEN 0 ELSE IF a[h] < b[h] THEN -1 ELSE 1

\* a * k for a small factor 0 <= k <= SmallMax
NMulSmall(a, k) == NCarry(Cols([i \in 1..Len(a) |-> a[i] * k]))

\* the sum of a[i] * b[c + 1 - i] for i in lo..hi, taken as the size of the
\* bag holding a[i] * b[c + 1 - i] + 1 copies of each i
ColSum(a, b, c, lo, hi) ==
    BagCardinality([i \in lo..hi |-> a[i] * b[c + 1 - i] + 1]) - (hi - lo + 1)

\* a * b by columns: column c collects the products of limbs i, j with
\* i + j = c + 1
NMul(a, b) ==
    IF a = <<>> \/ b = <<>> THEN <<>>
    ELSE NCarry(Cols([c \in 1..(Len(a) + Len(b) - 1) |->
                        ColSum(a, b, c,
                               IF c + 1 - Len(b) > 1 THEN c + 1 - Len(b) ELSE 1,
                               IF c < Len(a) THEN c ELSE Len(a))]))

\* the value of a number of at most three limbs
NToInt(a) == Limb(a, 1) + Base * Limb(a, 2) + Base * Base * Limb(a, 3)

\* whether f^e is a small factor
FitsSmall(f, e) ==
    \/ e = 1 /\ f <= SmallMax
    \/ e = 2 /\ f <= 1414
    \/ e = 3 /\ f <= 125
    \/ e <= 6 /\ f <= 10

\* a^e, by halving the exponent
RECURSIVE NPow(_, _)
NPow(a, e) ==
    IF e = 0 THEN <<1>>
    ELSE IF e = 1 THEN a
    ELSE IF Len(a) = 1 /\ FitsSmall(a[1], e) THEN NFromInt(a[1]^e)
    ELSE LET h == NPow(a, e \div 2)
             hh == NMul(h, h)
         IN  IF e % 2 = 0 THEN hh ELSE NMul(hh, a)

\* a * f^e
NMulPow(a, f, e) ==
    IF e = 0 THEN a
    ELSE IF FitsSmall(f, e) THEN NMulSmall(a, f^e)
    ELSE NMul(a, NPow(NFromInt(f), e))

----------------------------------------------------------------------------
(* Denominators: a product of small factors, kept as a function from each  *)
(* factor to its exponent (f^e).                                           *)

NoDen == <<>>

\* the function d written out factor by factor, without exponents 0
RECURSIVE DenCols(_, _)
DenCols(d, fs) ==
    IF fs = {} THEN NoDen
    ELSE LET f == CHOOSE x \in fs : TRUE
         IN  IF d[f] = 0 THEN DenCols(d, fs \ {f})
             ELSE (f :> d[f]) @@ DenCols(d, fs \ {f})

DenOf(f, e) == IF e = 0 \/ f = 1 THEN NoDen ELSE f :> e

DenExp(d, f) == IF f \in DOMAIN d THEN d[f] ELSE 0

DenLcm(a, b) ==
    IF a = b THEN a
    ELSE DenCols([f \in DOMAIN a \cup DOMAIN b |->
                    IF DenExp(a, f) > DenExp(b, f) THEN DenExp(a, f)
                    ELSE DenExp(b, f)],
                 DOMAIN a \cup DOMAIN b)

DenMul(a, b) ==
    DenCols([f \in DOMAIN a \cup DOMAIN b |-> DenExp(a, f) + DenExp(b, f)],
            DOMAIN a \cup DOMAIN b)

DenPow(a, k) == DenCols([f \in DOMAIN a |-> a[f] * k], DOMAIN a)

\* the numerator a of a fraction over d, rewritten over the multiple m of d
RECURSIVE NRescale(_, _, _, _)
NRescale(a, fs, d, m) ==
    IF fs = {} THEN a
    ELSE LET f == CHOOSE x \in fs : TRUE
         IN  NRescale(NMulPow(a, f, m[f] - DenExp(d, f)), fs \ {f}, d, m)

----------------------------------------------------------------------------
(* Numbers: [neg, mag, den] is (-1)^neg * mag / den; zero is never neg.    *)

QMake(neg, mag, den) ==
    [neg |-> neg /\ mag # <<>>, mag |-> mag, den |-> IF mag = <<>> THEN NoDen ELSE den]

QInt(k) == QMake(k < 0, NFromInt(IF k < 0 THEN -k ELSE k), NoDen)

\* the decimal literal k * 10^(-e)
QDec(k, e) == QMake(k < 0, NFromInt(IF k < 0 THEN -k ELSE k), DenOf(10, e))

QZero == QInt(0)

QOne == QInt(1)

QNeg(a) == QMake(~a.neg, a.mag, a.den)

\* signed sum of two numerators over the same denominator
SAdd(an, am, bn, bm, den) ==
    IF an = bn THEN QMake(an, NAdd(am, bm), den)
    ELSE IF NCmp(am, bm) >= 0 THEN QMake(an, NSub(am, bm), den)
    ELSE QMake(bn, NSub(bm, am), den)

QAdd(a, b) ==
    LET m == DenLcm(a.den, b.den)
    IN  SAdd(a.neg, NRescale(a.mag, DOMAIN m, a.den, m),
             b.neg, NRescale(b.mag, DOMAIN m, b.den, m), m)

QSub(a, b) == QAdd(a, QNeg(b))

QMul(a, b) == QMake(a.neg # b.neg, NMul(a.mag, b.mag), DenMul(a.den, b.den))

\* a / b for b # 0 whose numerator is a small number (at most SmallMax)
QDiv(a, b) ==
    QMake(a.neg # b.neg,
          NRescale(a.mag, DOMAIN b.den, NoDen, b.den),
          DenMul(a.den, DenOf(NToInt(b.mag), 1)))

\* -1, 0, 1 as a < b, a = b, a > b
QSign(a) == IF a.mag = <<>> THEN 0 ELSE IF a.neg THEN -1 ELSE 1

QCmp(a, b) == QSign(QSub(a, b))

QEq(a, b) == QCmp(a, b) = 0

QLt(a, b) == QCmp(a, b) < 0

QLe(a, b) == QCmp(a, b) <= 0

QGt(a, b) == QCmp(a, b) > 0

QGe(a, b) == QCmp(a, b) >= 0

QMin(a, b) == IF QLe(a, b) THEN a ELSE b

QMax(a, b) == IF QGe(a, b) THEN a ELSE b

\* Math.pow(a, k) for an integer k >= 0
QPow(a, k) ==
    QMake(a.neg /\ k % 2 = 1, NPow(a.mag, k), DenPow(a.den, k))

\* if (c) q += x
QAddIf(c, q, x) == IF c THEN QAdd(q, x) ELSE q

----------------------------------------------------------------------------
(* State.  Each calculator is a component holding the current parameters,  *)
(* the last result (Null before the first successful calculation) and the  *)
(* error mapping of the last validation.  locals holds the values the      *)
(* local variables of calculateSalary and calculateIRPF had in the last    *)
(* calculation that passed validation.  calculator names the component the *)
(* run exercises (the two share no state) and edits counts the parameter   *)
(* edits made so far.                                                      *)

VARIABLES params, result, errors, locals, ciParams, ciResult, ciErrors,
          calculator, edits

vars == <<params, result, errors, locals, ciParams, ciResult, ciErrors,
          calculator, edits>>

salaryVars == <<params, result, errors, locals>>

ciVars == <<ciParams, ciResult, ciErrors>>

Null == [null |-> TRUE]

NoErrors == [f \in {} |-> ""]

\* newErrors[field] = message
Put(m, field, message) == (field :> message) @@ m

\* if (c) newErrors[field] = message
PutIf(c, m, field, message) == IF c THEN Put(m, field, message) ELSE m

----------------------------------------------------------------------------
(* NetSalaryCalculator                                                     *)

SPANISH_REGIONS ==
    {"AN", "AR", "AS", "IB", "CN", "CB", "CL", "CM", "CT", "VC",
     "EX", "GA", "MD", "MC", "NV", "PV", "LR", "CE", "ML"}

Infinity == [inf |-> TRUE]

IRPF_BRACKETS ==
    << [min |-> QInt(0),      max |-> QInt(12450),  rate |-> QDec(19, 2)],
       [min |-> QInt(12450),  max |-> QInt(20200),  rate |-> QDec(24, 2)],
       [min |-> QInt(20200),  max |-> QInt(35200),  rate |-> QDec(30, 2)],
       [min |-> QInt(35200),  max |-> QInt(60000),  rate |-> QDec(37, 2)],
       [min |-> QInt(60000),  max |-> QInt(300000), rate |-> QDec(47, 2)],
       [min |-> QInt(300000), max |-> Infinity,     rate |-> QDec(47, 2)] >>

InitialSalaryParams ==
    [grossSalary      |-> QInt(35000),
     payFrequency     |-> "monthly",
     region           |-> "MD",
     maritalStatus    |-> "single",
     childrenUnder25  |-> 0,
     childrenOver25   |-> 0,
     workerDisability |-> 0,
     familyDisability |-> 0]

\* CheckGrossSalary with the upper rule at >= 1000000
CheckGrossSalaryAtLimit(p, e) ==
    PutIf(QGe(p.grossSalary, QInt(1000000)),
          PutIf(QLe(p.grossSalary, QZero), e,
                "grossSalary", "El salario bruto debe ser mayor que 0"),
          "grossSalary", "El salario bruto no puede exceder 1.000.000€")

\* the two grossSalary rules, applied to the mapping e
CheckGrossSalary(p, e) ==
    PutIf(QGt(p.grossSalary, QInt(1000000)),
          PutIf(QLe(p.grossSalary, QZero), e,
                "grossSalary", "El salario bruto debe ser mayor que 0"),
          "grossSalary", "El salario bruto no puede exceder 1.000.000€")

CheckChildren(p, e) ==
    PutIf(p.childrenOver25 < 0,
          PutIf(p.childrenUnder25 < 0, e,
                "childrenUnder25", "Número de hijos no puede ser negativo"),
          "childrenOver25", "Número de hijos no puede ser negativo")

CheckDisability(p, e) ==
    PutIf(p.familyDisability < 0 \/ p.familyDisability > 100,
          PutIf(p.workerDisability < 0 \/ p.workerDisability > 100, e,
                "workerDisability",
                "El porcentaje de discapacidad debe estar entre 0 y 100"),
          "familyDisability",
          "El porcentaje de discapacidad debe estar entre 0 y 100")

\* CheckRegion with a membership test on the list of regions
CheckRegionInList(p, e) ==
    PutIf(p.region \notin SPANISH_REGIONS, e,
          "region", "Debe seleccionar una comunidad autónoma")

\* !params.region
CheckRegion(p, e) ==
    PutIf(p.region = "", e, "region", "Debe seleccionar una comunidad autónoma")

\* SalaryErrors stopping at the first rule that reports
SalaryErrorsFirstOnly(p) ==
    IF DOMAIN CheckGrossSalary(p, NoErrors) # {} THEN CheckGrossSalary(p, NoErrors)
    ELSE IF DOMAIN CheckChildren(p, NoErrors) # {} THEN CheckChildren(p, NoErrors)
    ELSE IF DOMAIN CheckDisability(p, NoErrors) # {} THEN CheckDisability(p, NoErrors)
    ELSE CheckRegion(p, NoErrors)

\* the mapping validateInputs hands to setErrors
SalaryErrors(p) ==
    CheckRegion(p, CheckDisability(p, CheckChildren(p, CheckGrossSalary(p, NoErrors))))

\* the boolean validateInputs returns
validateInputs(p) == DOMAIN SalaryErrors(p) = {}

\* calculateSocialSecurity without the cap on the base
calculateSocialSecurityUncapped(grossSalary) ==
    QAdd(QAdd(QMul(grossSalary, QDec(47, 3)), QMul(grossSalary, QDec(155, 4))),
         QMul(grossSalary, QDec(1, 3)))

\* calculateSocialSecurity with the base clamped at 0 from below
calculateSocialSecurityClamped(grossSalary) ==
    QMul(QMax(QZero, QMin(grossSalary, QInt(53760))), QDec(635, 4))

calculateSocialSecurity(grossSalary) ==
    LET ssBase == QMin(grossSalary, QInt(53760))
        commonContingencies == QMul(ssBase, QDec(47, 3))
        unemployment == QMul(ssBase, QDec(155, 4))
        training == QMul(ssBase, QDec(1, 3))
    IN  QAdd(QAdd(commonContingencies, unemployment), training)

\* calculateEmployerSocialSecurity on the whole gross salary
calculateEmployerSocialSecurityUncapped(grossSalary) ==
    QMul(grossSalary, QDec(3055, 4))

calculateEmployerSocialSecurity(grossSalary) ==
    LET ssBase == QMin(grossSalary, QInt(53760))
        commonContingencies == QMul(ssBase, QDec(236, 3))
        unemployment == QMul(ssBase, QDec(55, 3))
        training == QMul(ssBase, QDec(6, 3))
        workplaceAccidents == QMul(ssBase, QDec(65, 4))
        fogasa == QMul(ssBase, QDec(2, 3))
    IN  QAdd(QAdd(QAdd(QAdd(commonContingencies, unemployment), training),
                  workplaceAccidents), fogasa)

\* getRegionMultiplier with the reference multiplier for every region
getRegionMultiplierFlat(region) == QDec(10, 1)

getRegionMultiplier(region) ==
    CASE region = "MD" -> QDec(10, 1)
      [] region = "CT" -> QDec(105, 2)
      [] region = "AN" -> QDec(95, 2)
      [] region = "VC" -> QDec(102, 2)
      [] region = "PV" -> QDec(90, 2)
      [] region = "NV" -> QDec(88, 2)
      [] region = "CN" -> QDec(92, 2)
      [] OTHER -> QDec(10, 1)

\* getPeriodsPerYear with the default for every frequency
getPeriodsPerYearDefault(frequency) == 12

getPeriodsPerYear(frequency) ==
    CASE frequency = "monthly" -> 12
      [] frequency = "biweekly" -> 26
      [] frequency = "weekly" -> 52
      [] frequency = "daily" -> 365
      [] OTHER -> 12

getPeriodName(frequency) ==
    CASE frequency = "monthly" -> "mes"
      [] frequency = "biweekly" -> "quincena"
      [] frequency = "weekly" -> "semana"
      [] frequency = "daily" -> "día"
      [] OTHER -> "mes"

\* ChildrenMinimum with one tier chosen by the number of children
ChildrenMinimumExclusive(totalChildren) ==
    IF totalChildren >= 4 THEN 4000 + (totalChildren - 3) * 4500
    ELSE IF totalChildren = 3 THEN 4000
    ELSE IF totalChildren = 2 THEN 2700
    ELSE IF totalChildren = 1 THEN 2400
    ELSE 0

\* what the children add to personalMinimum
ChildrenMinimum(totalChildren) ==
    (IF totalChildren >= 1 THEN 2400 ELSE 0)
    + (IF totalChildren >= 2 THEN 2700 ELSE 0)
    + (IF totalChildren >= 3 THEN 4000 ELSE 0)
    + (IF totalChildren >= 4 THEN (totalChildren - 3) * 4500 ELSE 0)

\* DisabilityMinimum with the 9000 added on top of the 3000
DisabilityMinimumAdditive(disability) ==
    (IF disability >= 33 THEN 3000 ELSE 0)
    + (IF disability >= 65 THEN 9000 ELSE 0)

\* what one person's disability percentage adds to personalMinimum
DisabilityMinimum(disability) ==
    IF disability >= 33
    THEN (IF disability >= 65 THEN 9000 ELSE 3000)
    ELSE 0

\* the personalMinimum of calculateIRPF
PersonalMinimum(p) ==
    5550
    + (IF p.maritalStatus = "married_no_income" THEN 3400 ELSE 0)
    + ChildrenMinimum(p.childrenUnder25 + p.childrenOver25)
    + DisabilityMinimum(p.workerDisability)
    + DisabilityMinimum(p.familyDisability)

\* BracketCap without Math.min
BracketCapNone(taxableBase, max) == taxableBase

\* Math.min(taxableBase, bracket.max)
BracketCap(taxableBase, max) ==
    IF max = Infinity THEN taxableBase ELSE QMin(taxableBase, max)

\* the tax after the brackets i..6 have been visited, from tax so far
RECURSIVE BracketLoop(_, _, _)
BracketLoop(taxableBase, i, tax) ==
    IF i > Len(IRPF_BRACKETS) THEN tax
    ELSE BracketLoop(taxableBase, i + 1,
            QAddIf(QGt(taxableBase, IRPF_BRACKETS[i].min), tax,
                   QMul(QSub(BracketCap(taxableBase, IRPF_BRACKETS[i].max),
                             IRPF_BRACKETS[i].min),
                        IRPF_BRACKETS[i].rate)))

IRPFRecord(taxableIncome, personalMinimum, taxableBase, p) ==
    [taxableIncome    |-> taxableIncome,
     personalMinimum  |-> personalMinimum,
     taxableBase      |-> taxableBase,
     tax              |-> BracketLoop(taxableBase, 1, QZero),
     regionMultiplier |-> getRegionMultiplier(p.region)]

\* IRPFBase without Math.max(0, ...)
IRPFBaseUnclamped(taxableIncome, personalMinimum, p) ==
    IRPFRecord(taxableIncome, personalMinimum,
               QSub(taxableIncome, QInt(personalMinimum)), p)

IRPFBase(taxableIncome, personalMinimum, p) ==
    IRPFRecord(taxableIncome, personalMinimum,
               QMax(QZero, QSub(taxableIncome, QInt(personalMinimum))), p)

\* the local variables of calculateIRPF at its return
IRPFLocals(grossSalary, socialSecurity, p) ==
    IRPFBase(QSub(grossSalary, socialSecurity), PersonalMinimum(p), p)

calculateIRPF(grossSalary, socialSecurity, p) ==
    LET l == IRPFLocals(grossSalary, socialSecurity, p)
    IN  QMul(l.tax, l.regionMultiplier)

calculateMEI(grossSalary) ==
    LET ssBase == QMin(grossSalary, QInt(53760))
        meiRate == QDec(8, 3)
        meiEmployer == QMul(ssBase, QDec(67, 4))
        meiWorker == QMul(ssBase, QDec(13, 4))
    IN  [meiEmployer |-> meiEmployer, meiWorker |-> meiWorker]

maxBase2025 == 58908

\* SolidarityBrackets without the third bracket
SolidarityBracketsTwo(excessSalary, firstBracketLimit, secondBracketLimit) ==
    QAddIf(QGt(excessSalary, firstBracketLimit),
      QAddIf(QGt(excessSalary, QZero), QZero,
             QMul(QMin(excessSalary, firstBracketLimit), QDec(92, 4))),
      QMul(QMin(QSub(excessSalary, firstBracketLimit), secondBracketLimit),
           QDec(1, 2)))

\* SolidarityBrackets with the second bracket applied to the whole excess
SolidarityBracketsWhole(excessSalary, firstBracketLimit, secondBracketLimit) ==
    QAddIf(QGt(excessSalary, QAdd(firstBracketLimit, secondBracketLimit)),
      QAddIf(QGt(excessSalary, firstBracketLimit),
        QAddIf(QGt(excessSalary, QZero), QZero,
               QMul(QMin(excessSalary, firstBracketLimit), QDec(92, 4))),
        QMul(QMin(excessSalary, secondBracketLimit), QDec(1, 2))),
      QMul(QSub(QSub(excessSalary, firstBracketLimit), secondBracketLimit),
           QDec(117, 4)))

\* the three brackets of calculateSolidarityQuota, each adding to totalQuota
SolidarityBrackets(excessSalary, firstBracketLimit, secondBracketLimit) ==
    QAddIf(QGt(excessSalary, QAdd(firstBracketLimit, secondBracketLimit)),
      QAddIf(QGt(excessSalary, firstBracketLimit),
        QAddIf(QGt(excessSalary, QZero), QZero,
               QMul(QMin(excessSalary, firstBracketLimit), QDec(92, 4))),
        QMul(QMin(QSub(excessSalary, firstBracketLimit), secondBracketLimit),
             QDec(1, 2))),
      QMul(QSub(QSub(excessSalary, firstBracketLimit), secondBracketLimit),
           QDec(117, 4)))

\* the totalQuota of calculateSolidarityQuota past its early return
SolidarityTotalQuota(grossSalary) ==
    SolidarityBrackets(QSub(grossSalary, QInt(maxBase2025)),
                       QMul(QMul(QInt(4909), QDec(1, 1)), QInt(12)),
                       QMul(QMul(QInt(4909), QDec(4, 1)), QInt(12)))

SolidaritySplit(totalQuota) ==
    [solidarityQuotaEmployer |-> QMul(totalQuota, QDec(8339, 4)),
     solidarityQuotaWorker   |-> QMul(totalQuota, QDec(1661, 4))]

\* calculateSolidarityQuota charging the whole salary once above the base
calculateSolidarityQuotaWholeSalary(grossSalary) ==
    IF QLe(grossSalary, QInt(maxBase2025))
    THEN [solidarityQuotaEmployer |-> QInt(0), solidarityQuotaWorker |-> QInt(0)]
    ELSE SolidaritySplit(QMul(grossSalary, QDec(92, 4)))

calculateSolidarityQuota(grossSalary) ==
    IF QLe(grossSalary, QInt(maxBase2025))
    THEN [solidarityQuotaEmployer |-> QInt(0), solidarityQuotaWorker |-> QInt(0)]
    ELSE SolidaritySplit(SolidarityTotalQuota(grossSalary))

\* TotalWorkerContributions without the worker's MEI
TotalWorkerContributionsNoMEI(socialSecurity, meiWorker, solidarityQuotaWorker) ==
    QAdd(socialSecurity, solidarityQuotaWorker)

TotalWorkerContributions(socialSecurity, meiWorker, solidarityQuotaWorker) ==
    QAdd(QAdd(socialSecurity, meiWorker), solidarityQuotaWorker)

\* NetAnnual before any deduction
NetAnnualBeforeDeductions(grossAnnual, totalWorkerContributions, irpf) ==
    grossAnnual

\* NetAnnual without the IRPF retention
NetAnnualBeforeIRPF(grossAnnual, totalWorkerContributions, irpf) ==
    QSub(grossAnnual, totalWorkerContributions)

NetAnnual(grossAnnual, totalWorkerContributions, irpf) ==
    QSub(QSub(grossAnnual, totalWorkerContributions), irpf)

\* the four contribution calls at the head of calculateSalary
Contributions(grossAnnual) ==
    [socialSecurity |-> calculateSocialSecurity(grossAnnual),
     employerSS     |-> calculateEmployerSocialSecurity(grossAnnual),
     mei            |-> calculateMEI(grossAnnual),
     sol            |-> calculateSolidarityQuota(grossAnnual)]

SalaryRecord(p, c, totalWorkerContributions, irpfLocals, irpf, netAnnual, periods) ==
    [params                   |-> p,
     totalWorkerContributions |-> totalWorkerContributions,
     taxableIncome            |-> irpfLocals.taxableIncome,
     personalMinimum          |-> irpfLocals.personalMinimum,
     taxableBase              |-> irpfLocals.taxableBase,
     tax                      |-> irpfLocals.tax,
     regionMultiplier         |-> irpfLocals.regionMultiplier,
     calculationResult        |->
        [grossAnnual                |-> p.grossSalary,
         grossPeriodic              |-> QDiv(p.grossSalary, QInt(periods)),
         socialSecurityContribution |-> c.socialSecurity,
         employerSocialSecurity     |-> c.employerSS,
         meiWorker                  |-> c.mei.meiWorker,
         meiEmployer                |-> c.mei.meiEmployer,
         solidarityQuotaWorker      |-> c.sol.solidarityQuotaWorker,
         solidarityQuotaEmployer    |-> c.sol.solidarityQuotaEmployer,
         irpfRetention              |-> irpf,
         netAnnual                  |-> netAnnual,
         netPeriodic                |-> QDiv(netAnnual, QInt(periods)),
         periodName                 |-> getPeriodName(p.payFrequency),
         periodsPerYear             |-> periods]]

SalaryNet(p, c, totalWorkerContributions, irpfLocals, irpf) ==
    SalaryRecord(p, c, totalWorkerContributions, irpfLocals, irpf,
                 NetAnnual(p.grossSalary, totalWorkerContributions, irpf),
                 getPeriodsPerYear(p.payFrequency))

SalaryIRPF(p, c, totalWorkerContributions, irpfLocals) ==
    SalaryNet(p, c, totalWorkerContributions, irpfLocals,
              QMul(irpfLocals.tax, irpfLocals.regionMultiplier))

SalaryContributions(p, c, totalWorkerContributions) ==
    SalaryIRPF(p, c, totalWorkerContributions,
               IRPFLocals(p.grossSalary, totalWorkerContributions, p))

SalaryQuotas(p, c) ==
    SalaryContributions(p, c,
        TotalWorkerContributions(c.socialSecurity, c.mei.meiWorker,
                                 c.sol.solidarityQuotaWorker))

\* the local variables of calculateSalary at setResult, with those of its
\* call of calculateIRPF
SalaryLocalsOf(p) == SalaryQuotas(p, Contributions(p.grossSalary))

\* the calculationResult calculateSalary builds from valid params
SalaryResultOf(p) == SalaryLocalsOf(p).calculationResult

\* setResult(calculationResult), with the locals kept beside it
StoreSalary(l) ==
    /\ result' = l.calculationResult
    /\ locals' = [params                   |-> l.params,
                  totalWorkerContributions |-> l.totalWorkerContributions,
                  taxableIncome            |-> l.taxableIncome,
                  personalMinimum          |-> l.personalMinimum,
                  taxableBase              |-> l.taxableBase,
                  tax                      |-> l.tax,
                  regionMultiplier         |-> l.regionMultiplier]

\* SalaryOutcome that keeps a result stored by an earlier click
SalaryOutcomeKeepFirst(newErrors) ==
    /\ errors' = newErrors
    /\ IF DOMAIN newErrors = {} /\ result = Null
       THEN StoreSalary(SalaryLocalsOf(params))
       ELSE UNCHANGED <<result, locals>>

\* SalaryOutcome without the early return
SalaryOutcomeAlways(newErrors) ==
    /\ errors' = newErrors
    /\ StoreSalary(SalaryLocalsOf(params))

\* setErrors(newErrors), then the calculation when newErrors is empty
SalaryOutcome(newErrors) ==
    /\ errors' = newErrors
    /\ IF DOMAIN newErrors = {}
       THEN StoreSalary(SalaryLocalsOf(params))
       ELSE UNCHANGED <<result, locals>>

\* the click on "Calcular": validateInputs, then the calculation and setResult
calculateSalary ==
    /\ calculator = "salary"
    /\ SalaryOutcome(SalaryErrors(params))
    /\ UNCHANGED <<params, ciVars, calculator, edits>>

----------------------------------------------------------------------------
(* NetSalaryChart, rendered with the stored result when there is one       *)

\* the data of the doughnut "Distribución del Salario Bruto"
doughnutData(r) ==
    <<r.netAnnual, r.socialSecurityContribution, r.irpfRetention>>

\* the total the doughnut's tooltip takes its percentages of
doughnutTotal(r) == r.grossAnnual

\* "Coste Total Empresa" of the chart's summary
chartCosteTotalEmpresa(r) ==
    QAdd(QAdd(QAdd(r.employerSocialSecurity, r.socialSecurityContribution),
              r.irpfRetention), r.netAnnual)

\* "Total coste" of the calculator's own breakdown
panelTotalCoste(r) ==
    QAdd(QAdd(QAdd(r.grossAnnual, r.employerSocialSecurity), r.meiEmployer),
         r.solidarityQuotaEmployer)

----------------------------------------------------------------------------
(* CompoundInterestCalculator                                              *)

InitialCIParams ==
    [initialBalance     |-> QInt(10000),
     periodicDeposit    |-> QInt(500),
     frequency          |-> 12,
     depositTiming      |-> "end",
     annualInterestRate |-> QInt(7),
     years              |-> 10]

\* CIErrors with the years rule at < 0
CIErrorsYearsNegative(p) ==
    PutIf(p.years < 0,
      PutIf(QLt(p.annualInterestRate, QZero),
        PutIf(QLt(p.periodicDeposit, QZero),
          PutIf(QLt(p.initialBalance, QZero), NoErrors,
                "initialBalance", "El balance inicial no puede ser negativo"),
          "periodicDeposit", "El depósito periódico no puede ser negativo"),
        "annualInterestRate", "La tasa de interés no puede ser negativa"),
      "years", "La duración debe ser mayor a 0")

\* the mapping validateInputs hands to setErrors
CIErrors(p) ==
    PutIf(p.years <= 0,
      PutIf(QLt(p.annualInterestRate, QZero),
        PutIf(QLt(p.periodicDeposit, QZero),
          PutIf(QLt(p.initialBalance, QZero), NoErrors,
                "initialBalance", "El balance inicial no puede ser negativo"),
          "periodicDeposit", "El depósito periódico no puede ser negativo"),
        "annualInterestRate", "La tasa de interés no puede ser negativa"),
      "years", "La duración debe ser mayor a 0")

\* the boolean validateInputs returns
ciValidateInputs(p) == DOMAIN CIErrors(p) = {}

\* r itself, not divided by n
PeriodicRateAnnual(p) == QDiv(p.annualInterestRate, QInt(100))

\* r / n
PeriodicRate(p) == QDiv(QDiv(p.annualInterestRate, QInt(100)), QInt(p.frequency))

\* Math.pow(1 + r/n, n*year)
Growth(p, year) == QPow(QAdd(QOne, PeriodicRate(p)), p.frequency * year)

\* Timed without the adjustment for deposits at the beginning
TimedNever(p, fv, rn) == fv

\* fv * (1 + r/n) for deposits at the beginning of the period
Timed(p, fv, rn) ==
    IF p.depositTiming = "beginning" THEN QMul(fv, QAdd(QOne, rn)) ELSE fv

AnnuityAt(p, growth, rn) ==
    Timed(p, QDiv(QMul(p.periodicDeposit, QSub(growth, QOne)), rn), rn)

\* periodicDeposit * (Math.pow(1 + r/n, n*year) - 1) / (r/n), times 1 + r/n
\* for deposits at the beginning of the period
Annuity(p, growth) == AnnuityAt(p, growth, PeriodicRate(p))

\* r > 0
HasRate(p) == QGt(QDiv(p.annualInterestRate, QInt(100)), QZero)

\* fvDeposits without the branch for r = 0
FvDepositsNoZeroRate(p, growth) ==
    IF QGt(p.periodicDeposit, QZero) /\ HasRate(p)
    THEN Annuity(p, growth)
    ELSE QZero

\* fvDeposits
FvDeposits(p, growth) ==
    IF QGt(p.periodicDeposit, QZero) /\ HasRate(p)
    THEN Annuity(p, growth)
    ELSE IF QGt(p.periodicDeposit, QZero)
    THEN QMul(p.periodicDeposit, QInt(p.frequency * p.years))
    ELSE QZero

\* yearlyDepositsValue without the adjustment for deposits at the beginning
YearlyDepositsValueOrdinary(p, year, growth) ==
    IF QGt(p.periodicDeposit, QZero) /\ year > 0
    THEN IF HasRate(p)
         THEN QDiv(QMul(p.periodicDeposit, QSub(growth, QOne)), PeriodicRate(p))
         ELSE QMul(p.periodicDeposit, QInt(p.frequency * year))
    ELSE QZero

\* yearlyDepositsValue of the loop's iteration for year
YearlyDepositsValue(p, year, growth) ==
    IF QGt(p.periodicDeposit, QZero) /\ year > 0
    THEN IF HasRate(p)
         THEN Annuity(p, growth)
         ELSE QMul(p.periodicDeposit, QInt(p.frequency * year))
    ELSE QZero

SnapshotRecord(year, balance, depositsToDate) ==
    [year     |-> year,
     balance  |-> balance,
     interest |-> QSub(balance, depositsToDate),
     deposits |-> depositsToDate]

\* SnapshotAt with the deposits counted to the end of the following year
SnapshotAtNextYear(p, year, growth) ==
    SnapshotRecord(year,
        QAdd(QMul(p.initialBalance, growth), YearlyDepositsValue(p, year, growth)),
        QAdd(p.initialBalance,
             QMul(p.periodicDeposit, QInt(p.frequency * (year + 1)))))

SnapshotAt(p, year, growth) ==
    SnapshotRecord(year,
        QAdd(QMul(p.initialBalance, growth), YearlyDepositsValue(p, year, growth)),
        QAdd(p.initialBalance, QMul(p.periodicDeposit, QInt(p.frequency * year))))

\* the record the loop's iteration for year pushes
YearlySnapshot(p, year) == SnapshotAt(p, year, Growth(p, year))

\* the loop with year < years as its condition
RECURSIVE YearlyLoopExclusive(_, _, _)
YearlyLoopExclusive(p, year, yearlyData) ==
    IF year < p.years
    THEN YearlyLoopExclusive(p, year + 1,
                             Append(yearlyData, YearlySnapshot(p, year)))
    ELSE yearlyData

\* for (let year = ...; year <= years; year++) yearlyData.push(...)
RECURSIVE YearlyLoop(_, _, _)
YearlyLoop(p, year, yearlyData) ==
    IF year <= p.years
    THEN YearlyLoop(p, year + 1, Append(yearlyData, YearlySnapshot(p, year)))
    ELSE yearlyData

\* CIRecord with the interest taken over the initial balance alone
CIRecordOverBalance(p, futureValue, totalDeposits) ==
    [futureValue   |-> futureValue,
     totalDeposits |-> totalDeposits,
     totalInterest |-> QSub(futureValue, p.initialBalance),
     yearlyData    |-> YearlyLoop(p, 0, <<>>)]

CIRecord(p, futureValue, totalDeposits) ==
    [futureValue   |-> futureValue,
     totalDeposits |-> totalDeposits,
     totalInterest |-> QSub(futureValue, totalDeposits),
     yearlyData    |-> YearlyLoop(p, 0, <<>>)]

CIResultAt(p, growth) ==
    CIRecord(p,
        QAdd(QMul(p.initialBalance, growth), FvDeposits(p, growth)),
        QAdd(p.initialBalance,
             QMul(p.periodicDeposit, QInt(p.frequency * p.years))))

\* the record calculateCompoundInterest hands to setResult
CIResultOf(p) == CIResultAt(p, Growth(p, p.years))

\* CIOutcome that leaves the stored errors alone when validation passes
CIOutcomeKeepErrors(newErrors) ==
    /\ ciErrors' = (IF DOMAIN newErrors = {} THEN ciErrors ELSE newErrors)
    /\ IF DOMAIN newErrors = {}
       THEN ciResult' = CIResultOf(ciParams)
       ELSE UNCHANGED ciResult

\* setErrors(newErrors), then the calculation when newErrors is empty
CIOutcome(newErrors) ==
    /\ ciErrors' = newErrors
    /\ IF DOMAIN newErrors = {}
       THEN ciResult' = CIResultOf(ciParams)
       ELSE UNCHANGED ciResult

\* the click on "Calcular": validateInputs, then the calculation and setResult
calculateCompoundInterest ==
    /\ calculator = "compound"
    /\ CIOutcome(CIErrors(ciParams))
    /\ UNCHANGED <<ciParams, salaryVars, calculator, edits>>

----------------------------------------------------------------------------
(* The two forms.  Each onChange handler replaces one field of the         *)
(* parameters and nothing else; the values are what the input's parser can *)
(* deliver.                                                                *)

MaxEdits == 2

InitialState ==
    /\ params = InitialSalaryParams
    /\ result = Null
    /\ errors = NoErrors
    /\ locals = Null
    /\ ciParams = InitialCIParams
    /\ ciResult = Null
    /\ ciErrors = NoErrors
    /\ edits = 0

Init ==
    /\ InitialState
    /\ calculator \in {"salary", "compound"}

\* setParams({...params, [field]: value}) of NetSalaryCalculator
SetSalaryParam(field, value) ==
    /\ calculator = "salary"
    /\ edits < MaxEdits
    /\ params' = [params EXCEPT ![field] = value]
    /\ edits' = edits + 1
    /\ UNCHANGED <<result, errors, locals, ciVars, calculator>>

SetGrossSalary ==
    \E v \in {QInt(0), QInt(35000), QInt(60000)} : SetSalaryParam("grossSalary", v)

SetPayFrequency ==
    \E v \in {"monthly", "weekly"} : SetSalaryParam("payFrequency", v)

SetRegion ==
    \E v \in {"MD", "CT"} : SetSalaryParam("region", v)

SetMaritalStatus ==
    \E v \in {"single", "married_no_income"} : SetSalaryParam("maritalStatus", v)

SetChildrenUnder25 ==
    \E v \in {0 - 1, 0, 2} : SetSalaryParam("childrenUnder25", v)

SetChildrenOver25 ==
    \E v \in {0, 1} : SetSalaryParam("childrenOver25", v)

SetWorkerDisability ==
    \E v \in {0, 101} : SetSalaryParam("workerDisability", v)

SetFamilyDisability ==
    \E v \in {0, 65} : SetSalaryParam("familyDisability", v)

\* setParams({...params, [field]: value}) of CompoundInterestCalculator
SetCIParam(field, value) ==
    /\ calculator = "compound"
    /\ edits < MaxEdits
    /\ ciParams' = [ciParams EXCEPT ![field] = value]
    /\ edits' = edits + 1
    /\ UNCHANGED <<ciResult, ciErrors, salaryVars, calculator>>

SetInitialBalance ==
    \E v \in {QInt(0 - 100), QInt(10000)} : SetCIParam("initialBalance", v)

SetPeriodicDeposit ==
    \E v \in {QInt(0 - 50), QInt(0), QInt(500)} : SetCIParam("periodicDeposit", v)

SetFrequency ==
    \E v \in {1, 12} : SetCIParam("frequency", v)

SetDepositTiming ==
    \E v \in {"end", "beginning"} : SetCIParam("depositTiming", v)

SetAnnualInterestRate ==
    \E v \in {QInt(0 - 1), QInt(0), QInt(7)} : SetCIParam("annualInterestRate", v)

SetYears ==
    \E v \in {0 - 2, 1, 10} : SetCIParam("years", v)

Next ==
    \/ SetGrossSalary
    \/ SetPayFrequency
    \/ SetRegion
    \/ SetMaritalStatus
    \/ SetChildrenUnder25
    \/ SetChildrenOver25
    \/ SetWorkerDisability
    \/ SetFamilyDisability
    \/ calculateSalary
    \/ SetInitialBalance
    \/ SetPeriodicDeposit
    \/ SetFrequency
    \/ SetDepositTiming
    \/ SetAnnualInterestRate
    \/ SetYears
    \/ calculateCompoundInterest

Spec == Init /\ [][Next]_vars

----------------------------------------------------------------------------
(* The calculations as functions of their parameters: the parameters are   *)
(* drawn from bounded sets and the calculate handler is applied to them.   *)

MaxChildren == 3
MaxYears == 2

\* parameters around every validation rule of NetSalaryCalculator; region
\* is a string, so the empty string and a code outside the list are drawn
SalaryValidationInputs ==
    { [grossSalary      |-> g,
       payFrequency     |-> "monthly",
       region           |-> r,
       maritalStatus    |-> "single",
       childrenUnder25  |-> cu,
       childrenOver25   |-> co,
       workerDisability |-> wd,
       familyDisability |-> fd] :
         g \in {QInt(0 - 1), QZero, QDec(1, 2), QInt(35000), QInt(1000000),
                QDec(100000001, 2)},
         r \in {"", "MD", "XX"},
         cu \in {0 - 1, 0}, co \in {0 - 1, 0},
         wd \in {0 - 1, 0, 100, 101}, fd \in {0 - 1, 0, 101} }

\* gross salaries on both sides of every threshold of the calculation
GrossValues ==
    { QDec(1, 2), QInt(9000), QInt(20000), QInt(35000), QInt(45000),
      QDec(5375999, 2), QInt(53760), QDec(5376001, 2),
      QInt(58908), QDec(5890801, 2), QInt(60000),
      QDec(647988, 1), QInt(70000), QInt(88362), QDec(8836201, 2),
      QInt(100000), QInt(300000), QInt(400000), QInt(1000000) }

SalaryInputs ==
    { [InitialSalaryParams EXCEPT !.grossSalary = g, !.region = r,
                                  !.maritalStatus = m] :
         g \in GrossValues, r \in {"MD", "CT", "NV", "AR"},
         m \in {"single", "married_no_income"} }
    \cup
    { [InitialSalaryParams EXCEPT !.grossSalary = g, !.maritalStatus = m,
                                  !.childrenUnder25 = cu, !.childrenOver25 = co] :
         g \in {QInt(35000), QInt(70000)},
         m \in {"single", "married_with_income", "married_no_income"},
         cu \in 0..MaxChildren, co \in 0..MaxChildren }
    \cup
    { [InitialSalaryParams EXCEPT !.workerDisability = wd,
                                  !.familyDisability = fd] :
         wd \in {0, 32, 33, 64, 65, 100}, fd \in {0, 32, 33, 64, 65, 100} }
    \cup
    { [InitialSalaryParams EXCEPT !.grossSalary = g, !.payFrequency = f,
                                  !.region = r] :
         g \in {QInt(35000), QDec(10000001, 2)},
         f \in {"monthly", "biweekly", "weekly", "daily"},
         r \in SPANISH_REGIONS }

SalaryValidationInit ==
    /\ params \in SalaryValidationInputs
    /\ result = Null /\ errors = NoErrors /\ locals = Null
    /\ ciParams = InitialCIParams /\ ciResult = Null /\ ciErrors = NoErrors
    /\ calculator = "salary" /\ edits = 0

SalaryInit ==
    /\ params \in SalaryInputs
    /\ result = Null /\ errors = NoErrors /\ locals = Null
    /\ ciParams = InitialCIParams /\ ciResult = Null /\ ciErrors = NoErrors
    /\ calculator = "salary" /\ edits = 0

SalaryValidationSpec == SalaryValidationInit /\ [][calculateSalary]_vars

SalarySpec == SalaryInit /\ [][calculateSalary]_vars

\* parameters around every validation rule and every branch of
\* CompoundInterestCalculator
CIInputs ==
    { [initialBalance     |-> b,
       periodicDeposit    |-> d,
       frequency          |-> n,
       depositTiming      |-> t,
       annualInterestRate |-> r,
       years              |-> y] :
         b \in {QDec(0 - 1, 2), QZero, QInt(10000)},
         d \in {QInt(0 - 500), QZero, QInt(500)},
         n \in {1, 2, 4, 12},
         t \in {"end", "beginning"},
         r \in {QDec(0 - 5, 1), QZero, QInt(7)},
         y \in (0 - 1)..MaxYears }

CIInit ==
    /\ ciParams \in CIInputs
    /\ ciResult = Null /\ ciErrors = NoErrors
    /\ params = InitialSalaryParams
    /\ result = Null /\ errors = NoErrors /\ locals = Null
    /\ calculator = "compound" /\ edits = 0

CISpec == CIInit /\ [][calculateCompoundInterest]_vars

----------------------------------------------------------------------------
(* Properties.                                                             *)

\* a calculate click has been handled since the start
SalaryCalculated == errors # NoErrors \/ result # Null

CICalculated == ciErrors # NoErrors \/ ciResult # Null

\* the fields of the salary parameters p that break their validation rule
SalaryViolations(p) ==
    (IF QLe(p.grossSalary, QZero) \/ QGt(p.grossSalary, QInt(1000000))
     THEN {"grossSalary"} ELSE {})
    \cup {f \in {"childrenUnder25", "childrenOver25"} : p[f] < 0}
    \cup {f \in {"workerDisability", "familyDisability"} : p[f] < 0 \/ p[f] > 100}
    \cup (IF p.region = "" THEN {"region"} ELSE {})

\* the fields of the compound-interest parameters p that break their rule
CIViolations(p) ==
    {f \in {"initialBalance", "periodicDeposit", "annualInterestRate"} :
        QLt(p[f], QZero)}
    \cup (IF p.years <= 0 THEN {"years"} ELSE {})

\* C1: for every input that passes validation, the stored netAnnual is
\* the gross annual salary minus the sum of the worker's social security,
\* the worker's MEI, the worker's solidarity quota and the IRPF retention.
C1_NetAnnualIdentity ==
    result # Null =>
        QEq(result.netAnnual,
            QSub(result.grossAnnual,
                 QAdd(QAdd(QAdd(result.socialSecurityContribution,
                                result.meiWorker),
                           result.solidarityQuotaWorker),
                      result.irpfRetention)))

C1_Witness ==
    /\ result # Null
    /\ QGt(result.solidarityQuotaWorker, QZero)
    /\ QGt(result.irpfRetention, QZero)
    /\ QGt(result.meiWorker, QZero)

\* C2: in both calculators a step changes the stored result only if the
\* parameters break no validation rule and the step leaves the error
\* mapping empty; a calculate click that reports an error keeps the
\* previous result.
C2_ResultOnlyWhenValid ==
    [][ /\ result' # result =>
              SalaryViolations(params) = {} /\ errors' = NoErrors
        /\ (SalaryViolations(params) # {} /\ errors' # errors) =>
              errors' # NoErrors /\ result' = result
        /\ ciResult' # ciResult =>
              CIViolations(ciParams) = {} /\ ciErrors' = NoErrors
        /\ (CIViolations(ciParams) # {} /\ ciErrors' # ciErrors) =>
              ciErrors' # NoErrors /\ ciResult' = ciResult ]_vars

C2_Witness ==
    /\ result # Null
    /\ errors # NoErrors
    /\ SalaryViolations(params) # {}

\* C3: after a calculate click the error mapping has the key grossSalary
\* exactly when grossSalary <= 0 or grossSalary > 1,000,000; no value in
\* (0, 1,000,000] gets a grossSalary error.
C3_GrossSalaryRange ==
    SalaryCalculated =>
        ("grossSalary" \in DOMAIN errors
            <=> (QLe(params.grossSalary, QZero)
                    \/ QGt(params.grossSalary, QInt(1000000))))

C3_Witness ==
    /\ SalaryCalculated
    /\ QEq(params.grossSalary, QInt(1000000))
    /\ "grossSalary" \notin DOMAIN errors
    /\ result # Null

\* C4: after a calculate click the keys of the salary error mapping are
\* exactly the fields whose rule is violated, every rule being evaluated
\* whatever the others reported.
C4_AllViolationsReported ==
    SalaryCalculated => DOMAIN errors = SalaryViolations(params)

C4_Witness ==
    /\ SalaryCalculated
    /\ DOMAIN errors = {"grossSalary", "childrenUnder25", "childrenOver25",
                        "workerDisability", "familyDisability", "region"}

C6_CIViolationsReported ==
    CICalculated =>
        /\ DOMAIN ciErrors = CIViolations(ciParams)
        /\ ciResult # Null <=> CIViolations(ciParams) = {}

C6_Witness ==
    /\ CICalculated
    /\ DOMAIN ciErrors = {"initialBalance", "periodicDeposit",
                          "annualInterestRate", "years"}

\* C7: the worker's social security contribution is min(gross, 53760) times
\* 0.0635, hence 3413.76 for every gross salary of 53760 or more.
C7_WorkerSocialSecurity ==
    result # Null =>
        /\ QEq(result.socialSecurityContribution,
               QMul(QMin(result.grossAnnual, QInt(53760)), QDec(635, 4)))
        /\ QGe(result.grossAnnual, QInt(53760)) =>
              QEq(result.socialSecurityContribution, QDec(341376, 2))

C7_Witness ==
    /\ result # Null
    /\ QGt(result.grossAnnual, QInt(53760))
    /\ QEq(result.socialSecurityContribution, QDec(341376, 2))

\* the total solidarity quota of a pair of employer and worker parts
SolidarityTotal(quota) ==
    QAdd(quota.solidarityQuotaEmployer, quota.solidarityQuotaWorker)

\* the total solidarity quota at each salary of GrossValues
SolidarityByGross ==
    { <<g, SolidarityTotal(calculateSolidarityQuota(g))>> : g \in GrossValues }

\* C8: the solidarity quota is 0 for a gross salary of 58,908 or less, and
\* above 58,908 it is smaller than the quota of every larger salary.
C8_SolidarityZeroThenIncreasing ==
    result # Null =>
        /\ QLe(result.grossAnnual, QInt(58908)) =>
              /\ QEq(result.solidarityQuotaEmployer, QZero)
              /\ QEq(result.solidarityQuotaWorker, QZero)
        /\ QGt(result.grossAnnual, QInt(58908)) =>
              /\ QGt(SolidarityTotal(result), QZero)
              /\ \A gq \in SolidarityByGross :
                    QGt(gq[1], result.grossAnnual) =>
                        QLt(SolidarityTotal(result), gq[2])

C8_Witness ==
    /\ result # Null
    /\ QEq(result.grossAnnual, QInt(100000))
    /\ \E gq \in SolidarityByGross : QGt(gq[1], result.grossAnnual)

\* C9: above 58,908 the total solidarity quota is the marginal sum
\* 0.0092 * min(excess, 5890.80)
\* + 0.01 * min(max(excess - 5890.80, 0), 23563.20)
\* + 0.0117 * max(excess - 5890.80 - 23563.20, 0) with excess = gross -
\* 58,908; the employer pays 83.39% of it, the worker 16.61%, and the two
\* parts add up to the total.
C9_SolidarityMarginalSplit ==
    (result # Null /\ QGt(result.grossAnnual, QInt(58908))) =>
        LET excess == QSub(result.grossAnnual, QInt(58908))
            total ==
                QAdd(QAdd(QMul(QDec(92, 4), QMin(excess, QDec(589080, 2))),
                          QMul(QDec(1, 2),
                               QMin(QMax(QSub(excess, QDec(589080, 2)), QZero),
                                    QDec(2356320, 2)))),
                     QMul(QDec(117, 4),
                          QMax(QSub(QSub(excess, QDec(589080, 2)),
                                    QDec(2356320, 2)), QZero)))
        IN  /\ QEq(result.solidarityQuotaEmployer, QMul(total, QDec(8339, 4)))
            /\ QEq(result.solidarityQuotaWorker, QMul(total, QDec(1661, 4)))
            /\ QEq(SolidarityTotal(result), total)

C9_Witness ==
    /\ result # Null
    /\ QEq(result.grossAnnual, QInt(300000))
    /\ QGt(result.solidarityQuotaWorker, QZero)

\* what marital status and disabilities contribute to personalMinimum
MinimumWithoutChildren(p) ==
    5550
    + (IF p.maritalStatus = "married_no_income" THEN 3400 ELSE 0)
    + (IF p.workerDisability >= 65 THEN 9000
       ELSE IF p.workerDisability >= 33 THEN 3000 ELSE 0)
    + (IF p.familyDisability >= 65 THEN 9000
       ELSE IF p.familyDisability >= 33 THEN 3000 ELSE 0)

\* the children's share of the personalMinimum of the last calculation
ChildrenShare == locals.personalMinimum - MinimumWithoutChildren(locals.params)

TotalChildren == locals.params.childrenUnder25 + locals.params.childrenOver25

\* C10 as stated: the children's allowance is one tier chosen by the number
\* of children: 0, 2400, 2700, 4000, then 4000 + 4500 * (n - 3).
C10_ExclusiveTiers ==
    locals # Null =>
        ChildrenShare =
            (CASE TotalChildren = 0 -> 0
               [] TotalChildren = 1 -> 2400
               [] TotalChildren = 2 -> 2700
               [] TotalChildren = 3 -> 4000
               [] OTHER -> 4000 + 4500 * (TotalChildren - 3))

\* C10: the children's allowance accumulates over the tiers: 0 for no
\* child, 2400 for 1, 5100 for 2, 9100 for 3, then
\* 9100 + 4500 * (n - 3) for n >= 4 (18100 for 5 children).
C10_CumulativeTiers ==
    locals # Null =>
        ChildrenShare =
            (CASE TotalChildren = 0 -> 0
               [] TotalChildren = 1 -> 2400
               [] TotalChildren = 2 -> 5100
               [] TotalChildren = 3 -> 9100
               [] OTHER -> 9100 + 4500 * (TotalChildren - 3))

C10_Witness ==
    /\ locals # Null
    /\ TotalChildren = 5
    /\ ChildrenShare = 18100

\* C11: in calculateIRPF the taxable base is never negative, the tax is 0
\* whenever taxableIncome <= personalMinimum, and the IRPF retention of the
\* result is never negative, for every gross salary and every region.
C11_IRPFNeverNegative ==
    locals # Null =>
        /\ QGe(locals.taxableBase, QZero)
        /\ QLe(locals.taxableIncome, QInt(locals.personalMinimum)) =>
              /\ QEq(locals.tax, QZero)
              /\ QEq(result.irpfRetention, QZero)
        /\ QGe(locals.tax, QZero)
        /\ QGe(result.irpfRetention, QZero)

C11_Witness ==
    /\ locals # Null
    /\ QEq(params.grossSalary, QInt(9000))
    /\ QLt(locals.taxableIncome, QInt(locals.personalMinimum))
    /\ QEq(locals.taxableBase, QZero)
    /\ QEq(result.irpfRetention, QZero)

----------------------------------------------------------------------------
(* The contribution functions called on their own: calculateSalary's four  *)
(* calls (calculateSocialSecurity, calculateEmployerSocialSecurity,        *)
(* calculateMEI, calculateSolidarityQuota) without validateInputs before   *)
(* them, on gross salaries that include 0 and negative amounts.            *)

ContributionInputs ==
    { QInt(1000 * k) : k \in (0 - 20)..80 }
    \cup { QDec(0 - 1, 2), QDec(1, 2), QDec(5890801, 2) }

ContributionsInit ==
    /\ \E g \in ContributionInputs :
            params = [InitialSalaryParams EXCEPT !.grossSalary = g]
    /\ result = Null /\ errors = NoErrors /\ locals = Null
    /\ ciParams = InitialCIParams /\ ciResult = Null /\ ciErrors = NoErrors
    /\ calculator = "salary" /\ edits = 0

\* the four calls on params.grossSalary, their values kept in locals
callContributions ==
    /\ locals' = [grossSalary   |-> params.grossSalary,
                  contributions |-> Contributions(params.grossSalary)]
    /\ UNCHANGED <<params, result, errors, ciVars, calculator, edits>>

ContributionsSpec == ContributionsInit /\ [][callContributions]_vars

\* C12 as stated: worker and employer social security, MEI and the
\* solidarity quota are all zero for every gross salary <= 0.
C12_ZeroAtOrBelowZero ==
    (locals # Null /\ QLe(locals.grossSalary, QZero)) =>
        /\ QEq(locals.contributions.socialSecurity, QZero)
        /\ QEq(locals.contributions.employerSS, QZero)
        /\ QEq(locals.contributions.mei.meiWorker, QZero)
        /\ QEq(locals.contributions.mei.meiEmployer, QZero)
        /\ QEq(locals.contributions.sol.solidarityQuotaWorker, QZero)
        /\ QEq(locals.contributions.sol.solidarityQuotaEmployer, QZero)

\* C12: for a gross salary <= 0 the solidarity quota is zero, and worker
\* social security, employer social security and MEI are their rate times
\* the gross salary (6.35%, 30.55%, 0.13% and 0.67%): zero at 0 and
\* negative below 0, since the base is capped from above only.
C12_ProportionalAtOrBelowZero ==
    (locals # Null /\ QLe(locals.grossSalary, QZero)) =>
        /\ QEq(locals.contributions.socialSecurity,
               QMul(locals.grossSalary, QDec(635, 4)))
        /\ QEq(locals.contributions.employerSS,
               QMul(locals.grossSalary, QDec(3055, 4)))
        /\ QEq(locals.contributions.mei.meiWorker,
               QMul(locals.grossSalary, QDec(13, 4)))
        /\ QEq(locals.contributions.mei.meiEmployer,
               QMul(locals.grossSalary, QDec(67, 4)))
        /\ QEq(locals.contributions.sol.solidarityQuotaWorker, QZero)
        /\ QEq(locals.contributions.sol.solidarityQuotaEmployer, QZero)
        /\ QLt(locals.grossSalary, QZero) =>
              QLt(locals.contributions.socialSecurity, QZero)

C12_Witness ==
    /\ locals # Null
    /\ QEq(locals.grossSalary, QInt(0 - 1000))
    /\ QEq(locals.contributions.socialSecurity, QDec(0 - 635, 1))
    /\ QEq(locals.contributions.sol.solidarityQuotaWorker, QZero)

\* C13: with annualInterestRate = 0 the future value is exactly
\* initialBalance + periodicDeposit * frequency * years and the total
\* interest is 0, for deposits at the end and at the beginning of the period.
C13_ZeroRateNoInterest ==
    (ciResult # Null /\ QEq(ciParams.annualInterestRate, QZero)) =>
        /\ QEq(ciResult.futureValue,
               QAdd(ciParams.initialBalance,
                    QMul(ciParams.periodicDeposit,
                         QInt(ciParams.frequency * ciParams.years))))
        /\ QEq(ciResult.totalInterest, QZero)

C13_Witness ==
    /\ ciResult # Null
    /\ QEq(ciParams.annualInterestRate, QZero)
    /\ QEq(ciParams.periodicDeposit, QInt(500))
    /\ ciParams.depositTiming = "beginning"
    /\ ciParams.frequency = 12 /\ ciParams.years = 2
    /\ QEq(ciResult.futureValue, QInt(22000))

\* C14: futureValue = totalDeposits + totalInterest, and totalDeposits =
\* initialBalance + periodicDeposit * frequency * years whatever the deposit
\* timing.
C14_TotalsIdentity ==
    ciResult # Null =>
        /\ QEq(ciResult.futureValue,
               QAdd(ciResult.totalDeposits, ciResult.totalInterest))
        /\ QEq(ciResult.totalDeposits,
               QAdd(ciParams.initialBalance,
                    QMul(ciParams.periodicDeposit,
                         QInt(ciParams.frequency * ciParams.years))))

C14_Witness ==
    /\ ciResult # Null
    /\ ciParams.depositTiming = "beginning"
    /\ ciParams.frequency = 4 /\ ciParams.years = 2
    /\ QEq(ciParams.initialBalance, QInt(10000))
    /\ QEq(ciParams.periodicDeposit, QInt(500))
    /\ QEq(ciParams.annualInterestRate, QInt(7))
    /\ QEq(ciResult.totalDeposits, QInt(14000))
    /\ QGt(ciResult.totalInterest, QZero)

\* C15: the first snapshot of the yearly series is year 0, with balance =
\* initialBalance, interest = 0 and deposits = initialBalance.
C15_YearZeroSnapshot ==
    ciResult # Null =>
        /\ Len(ciResult.yearlyData) >= 1
        /\ ciResult.yearlyData[1].year = 0
        /\ QEq(ciResult.yearlyData[1].balance, ciParams.initialBalance)
        /\ QEq(ciResult.yearlyData[1].interest, QZero)
        /\ QEq(ciResult.yearlyData[1].deposits, ciParams.initialBalance)

C15_Witness ==
    /\ ciResult # Null
    /\ QEq(ciParams.periodicDeposit, QInt(500))
    /\ QEq(ciParams.annualInterestRate, QInt(7))
    /\ ciParams.frequency = 12 /\ ciParams.years = 1
    /\ ciResult.yearlyData[1].year = 0
    /\ QEq(ciResult.yearlyData[1].balance, QInt(10000))
    /\ QEq(ciResult.yearlyData[1].deposits, QInt(10000))

\* C16: the last snapshot of the yearly series (year = years) carries the
\* totals: balance = futureValue, deposits = totalDeposits and interest =
\* totalInterest.
C16_LastSnapshotReconciles ==
    ciResult # Null =>
        /\ Len(ciResult.yearlyData) >= 1
        /\ ciResult.yearlyData[Len(ciResult.yearlyData)].year = ciParams.years
        /\ QEq(ciResult.yearlyData[Len(ciResult.yearlyData)].balance,
               ciResult.futureValue)
        /\ QEq(ciResult.yearlyData[Len(ciResult.yearlyData)].deposits,
               ciResult.totalDeposits)
        /\ QEq(ciResult.yearlyData[Len(ciResult.yearlyData)].interest,
               ciResult.totalInterest)

C16_Witness ==
    /\ ciResult # Null
    /\ ciParams.depositTiming = "beginning"
    /\ ciParams.frequency = 2 /\ ciParams.years = 2
    /\ QEq(ciParams.periodicDeposit, QInt(500))
    /\ QEq(ciParams.annualInterestRate, QInt(7))
    /\ ciResult.yearlyData[3].year = 2
    /\ QEq(ciResult.yearlyData[3].balance, ciResult.futureValue)
    /\ QGt(ciResult.yearlyData[3].interest, QZero)

\* C17: the yearly series has exactly years + 1 snapshots, whose year fields
\* are 0, 1, ..., years in ascending order.
C17_YearlySeriesShape ==
    ciResult # Null =>
        /\ Len(ciResult.yearlyData) = ciParams.years + 1
        /\ \A i \in 1..Len(ciResult.yearlyData) :
              ciResult.yearlyData[i].year = i - 1

C17_Witness ==
    /\ ciResult # Null
    /\ ciParams.years = MaxYears
    /\ ciParams.frequency = 1
    /\ Len(ciResult.yearlyData) = MaxYears + 1
    /\ ciResult.yearlyData[MaxYears + 1].year = MaxYears

\* 10000 x (1 + 0.07/12)^120 + 500 x ((1 + 0.07/12)^120 - 1)/(0.07/12)
DefaultsFormula ==
    QAdd(QMul(QInt(10000), QPow(QAdd(QOne, QDiv(QDec(7, 2), QInt(12))), 120)),
         QDiv(QMul(QInt(500),
                   QSub(QPow(QAdd(QOne, QDiv(QDec(7, 2), QInt(12))), 120), QOne)),
              QDiv(QDec(7, 2), QInt(12))))

\* a result stored for the initial parameters (10000, 500, 12, end, 7, 10)
DefaultsCalculated == calculator = "compound" /\ edits = 0 /\ ciResult # Null

\* C18 as stated: for the parameters 10000, 500, 12, 7, 10, end the future
\* value is 10000 x (1 + 0.07/12)^120 + 500 x ((1 + 0.07/12)^120 - 1)/(0.07/12),
\* which is approximately 90,155 (within 1).
C18_DefaultsAbout90155 ==
    DefaultsCalculated =>
        /\ QEq(ciResult.futureValue, DefaultsFormula)
        /\ QGt(ciResult.futureValue, QInt(90154))
        /\ QLt(ciResult.futureValue, QInt(90156))

\* C18: for the parameters 10000, 500, 12, 7, 10, end the future value is
\* 10000 x (1 + 0.07/12)^120 + 500 x ((1 + 0.07/12)^120 - 1)/(0.07/12),
\* which is approximately 106,639.02 (between 106,639.01 and 106,639.03).
C18_DefaultsAbout106639 ==
    DefaultsCalculated =>
        /\ QEq(ciResult.futureValue, DefaultsFormula)
        /\ QGt(ciResult.futureValue, QDec(10663901, 2))
        /\ QLt(ciResult.futureValue, QDec(10663903, 2))

C18_Witness ==
    /\ DefaultsCalculated
    /\ ciErrors = NoErrors
    /\ ciParams.frequency = 12 /\ ciParams.years = 10
    /\ ciParams.depositTiming = "end"
    /\ QEq(ciParams.initialBalance, QInt(10000))
    /\ QEq(ciParams.periodicDeposit, QInt(500))
    /\ QEq(ciParams.annualInterestRate, QInt(7))
    /\ QGt(ciResult.futureValue, QInt(106639))

\* what one calculate click leaves, given the errors and the result that the
\* current parameters alone determine; a click in a state that already holds
\* them changes neither
ClickLeaves(newErrors, expected, stored, stored2, shown, shown2) ==
    /\ shown2 = newErrors
    /\ IF newErrors = NoErrors THEN stored2 = expected ELSE stored2 = stored
    /\ (shown = newErrors /\ (newErrors = NoErrors => stored = expected)) =>
          (stored2 = stored /\ shown2 = shown)

\* C19: a calculate click (the only step that keeps the parameters) leaves
\* errors and, when they are empty, a result that are functions of the
\* current parameters alone, whatever result or errors earlier clicks
\* stored; so a second click with unchanged parameters leaves the stored
\* result and errors as they are.  For both calculators.
C19_CalculateIdempotent ==
    [][ /\ (calculator = "salary" /\ edits' = edits) =>
              ClickLeaves(SalaryErrors(params), SalaryResultOf(params),
                          result, result', errors, errors')
        /\ (calculator = "compound" /\ edits' = edits) =>
              ClickLeaves(CIErrors(ciParams),
                          IF CIErrors(ciParams) = NoErrors
                          THEN CIResultOf(ciParams) ELSE Null,
                          ciResult, ciResult', ciErrors, ciErrors') ]_vars

C19_Witness ==
    /\ calculator = "salary"
    /\ edits >= 1
    /\ errors = NoErrors
    /\ result # Null
    /\ locals.params = params
    /\ QEq(params.grossSalary, QInt(60000))
    /\ QEq(result.grossAnnual, QInt(60000))
    /\ result = SalaryResultOf(params)

\* initialBalance x G + periodicDeposit x (G - 1)/rho, the deposit term
\* times (1 + rho) for deposits at the beginning; G stands for (1 + rho)^N
FutureValueFormula(p, rho, G) ==
    QAdd(QMul(p.initialBalance, G),
         QMul(QDiv(QMul(p.periodicDeposit, QSub(G, QOne)), rho),
              IF p.depositTiming = "beginning" THEN QAdd(QOne, rho) ELSE QOne))

FutureValueAtRate(p, rho) ==
    FutureValueFormula(p, rho, QPow(QAdd(QOne, rho), p.frequency * p.years))

\* C20: for a periodic rate rho = annualInterestRate/100/frequency > 0 and
\* N = frequency x years, futureValue = initialBalance x (1+rho)^N +
\* periodicDeposit x ((1+rho)^N - 1)/rho for deposits at the end, with the
\* deposit term times (1+rho) for deposits at the beginning and the
\* principal term the same for both timings.
C20_FutureValueFormula ==
    (ciResult # Null /\ QGt(ciParams.annualInterestRate, QZero)) =>
        QEq(ciResult.futureValue,
            FutureValueAtRate(ciParams,
                QDiv(QDiv(ciParams.annualInterestRate, QInt(100)),
                     QInt(ciParams.frequency))))

C20_Witness ==
    /\ ciResult # Null
    /\ ciParams.depositTiming = "beginning"
    /\ ciParams.frequency = 12 /\ ciParams.years = 2
    /\ QEq(ciParams.initialBalance, QInt(10000))
    /\ QEq(ciParams.periodicDeposit, QInt(500))
    /\ QEq(ciParams.annualInterestRate, QInt(7))
    /\ QGt(ciResult.futureValue, QInt(24000))
    /\ QLt(ciResult.futureValue, QInt(25000))

\* the part of taxableBase between lower and upper
Slice(taxableBase, lower, upper) ==
    QMax(QZero, QSub(QMin(taxableBase, upper), lower))

\* the marginal sum over the six brackets, the last one without upper bound
MarginalSum(taxableBase) ==
    QAdd(QAdd(QAdd(QAdd(QAdd(
        QMul(Slice(taxableBase, QInt(0), QInt(12450)), QDec(19, 2)),
        QMul(Slice(taxableBase, QInt(12450), QInt(20200)), QDec(24, 2))),
        QMul(Slice(taxableBase, QInt(20200), QInt(35200)), QDec(30, 2))),
        QMul(Slice(taxableBase, QInt(35200), QInt(60000)), QDec(37, 2))),
        QMul(Slice(taxableBase, QInt(60000), QInt(300000)), QDec(47, 2))),
        QMul(QMax(QZero, QSub(taxableBase, QInt(300000))), QDec(47, 2)))

\* what bracket i of IRPF_BRACKETS takes of taxableBase
TaxableInBracket(taxableBase, i) ==
    IF QGt(taxableBase, IRPF_BRACKETS[i].min)
    THEN QSub(BracketCap(taxableBase, IRPF_BRACKETS[i].max), IRPF_BRACKETS[i].min)
    ELSE QZero

TaxableInAllBrackets(taxableBase) ==
    QAdd(QAdd(QAdd(QAdd(QAdd(
        TaxableInBracket(taxableBase, 1), TaxableInBracket(taxableBase, 2)),
        TaxableInBracket(taxableBase, 3)), TaxableInBracket(taxableBase, 4)),
        TaxableInBracket(taxableBase, 5)), TaxableInBracket(taxableBase, 6))

\* C21: the IRPF tax before the regional adjustment is the marginal sum over
\* the six brackets [0,12450] 19%, (12450,20200] 24%, (20200,35200] 30%,
\* (35200,60000] 37%, (60000,300000] 47%, (300000,inf) 47%; the amounts the
\* brackets take add up to taxableBase, so each euro is taxed in one bracket.
C21_MarginalBracketSum ==
    locals # Null =>
        /\ Len(IRPF_BRACKETS) = 6
        /\ QEq(locals.tax, MarginalSum(locals.taxableBase))
        /\ QEq(TaxableInAllBrackets(locals.taxableBase), locals.taxableBase)

C21_Witness ==
    /\ locals # Null
    /\ QEq(params.grossSalary, QInt(400000))
    /\ QGt(locals.taxableBase, QInt(300000))
    /\ QGt(locals.tax, QMul(QInt(300000), QDec(19, 2)))
    /\ QLt(locals.tax, QMul(locals.taxableBase, QDec(47, 2)))

\* worker social security + MEI worker + solidarity-quota worker of a result
WorkerSide(r) ==
    QAdd(QAdd(r.socialSecurityContribution, r.meiWorker), r.solidarityQuotaWorker)

\* the IRPF that follows from a taxable income, a personal minimum and a region
IRPFOn(taxableIncome, personalMinimum, region) ==
    QMul(MarginalSum(QMax(QZero, QSub(taxableIncome, QInt(personalMinimum)))),
         getRegionMultiplier(region))

\* C22: calculateSalary computes IRPF on taxableIncome = grossAnnual -
\* (worker social security + MEI worker + solidarity-quota worker); the
\* contributions passed to calculateIRPF are these three amounts, and IRPF
\* and netAnnual follow from them without any employer-side amount.
C22_WorkerSideDeductions ==
    locals # Null =>
        /\ QEq(locals.totalWorkerContributions, WorkerSide(result))
        /\ QEq(locals.taxableIncome,
               QSub(result.grossAnnual, WorkerSide(result)))
        /\ QEq(result.irpfRetention,
               IRPFOn(QSub(result.grossAnnual, WorkerSide(result)),
                      PersonalMinimum(params), params.region))
        /\ QEq(result.netAnnual,
               QSub(QSub(result.grossAnnual, WorkerSide(result)),
                    result.irpfRetention))

C22_Witness ==
    /\ locals # Null
    /\ QEq(params.grossSalary, QInt(100000))
    /\ QGt(result.meiWorker, QZero)
    /\ QGt(result.solidarityQuotaWorker, QZero)
    /\ QGt(result.employerSocialSecurity, QZero)
    /\ QGt(result.solidarityQuotaEmployer, QZero)
    /\ QEq(locals.taxableIncome, QSub(QInt(100000), WorkerSide(result)))
    /\ QGt(result.irpfRetention, QZero)

\* what marital status and children contribute to personalMinimum
MinimumWithoutDisability(p) ==
    5550
    + (IF p.maritalStatus = "married_no_income" THEN 3400 ELSE 0)
    + (CASE p.childrenUnder25 + p.childrenOver25 = 0 -> 0
         [] p.childrenUnder25 + p.childrenOver25 = 1 -> 2400
         [] p.childrenUnder25 + p.childrenOver25 = 2 -> 5100
         [] OTHER -> 9100 + 4500 * (p.childrenUnder25 + p.childrenOver25 - 3))

\* the disabilities' share of the personalMinimum of the last calculation
DisabilityShare ==
    locals.personalMinimum - MinimumWithoutDisability(locals.params)

\* the allowance for one person's disability percentage
DisabilityAllowance(percentage) ==
    CASE percentage < 33 -> 0
      [] percentage >= 33 /\ percentage < 65 -> 3000
      [] OTHER -> 9000

\* C23: the disability allowance in personalMinimum is, per person, 0 below
\* 33%, 3000 in [33, 65) and 9000 (not 12000) from 65%; the worker's and the
\* family member's allowances are added, so the total is one of 0, 3000,
\* 6000, 9000, 12000, 18000.
C23_DisabilityAllowance ==
    locals # Null =>
        /\ DisabilityShare =
              DisabilityAllowance(locals.params.workerDisability)
              + DisabilityAllowance(locals.params.familyDisability)
        /\ DisabilityShare \in {0, 3000, 6000, 9000, 12000, 18000}

C23_Witness ==
    /\ locals # Null
    /\ locals.params.workerDisability = 65
    /\ locals.params.familyDisability = 33
    /\ DisabilityShare = 12000
    /\ locals.personalMinimum = 5550 + 12000

\* the seven regions with an entry, as hundredths
RegionHundredths ==
    ("MD" :> 100) @@ ("CT" :> 105) @@ ("AN" :> 95) @@ ("VC" :> 102)
    @@ ("PV" :> 90) @@ ("NV" :> 88) @@ ("CN" :> 92)

RegionFactor(region) ==
    IF region \in DOMAIN RegionHundredths
    THEN QDec(RegionHundredths[region], 2)
    ELSE QOne

\* C24: the IRPF withholding is the bracket tax times the region multiplier:
\* MD 1.0, CT 1.05, AN 0.95, VC 1.02, PV 0.90, NV 0.88, CN 0.92 and 1.0 for
\* every other region code; every multiplier is strictly positive.
C24_RegionMultiplier ==
    locals # Null =>
        /\ QEq(locals.regionMultiplier, RegionFactor(params.region))
        /\ QGt(locals.regionMultiplier, QZero)
        /\ QEq(result.irpfRetention,
               QMul(locals.tax, RegionFactor(params.region)))
        /\ \A r \in SPANISH_REGIONS :
              /\ QEq(getRegionMultiplier(r), RegionFactor(r))
              /\ QGt(getRegionMultiplier(r), QZero)

C24_Witness ==
    /\ locals # Null
    /\ params.region = "PV"
    /\ QEq(locals.regionMultiplier, QDec(9, 1))
    /\ QGt(locals.tax, QZero)
    /\ QEq(result.irpfRetention, QMul(locals.tax, QDec(9, 1)))
    /\ QLt(result.irpfRetention, locals.tax)

\* min(grossAnnual, 53760)
CappedBase(grossAnnual) == QMin(grossAnnual, QInt(53760))

\* C25: with base = min(grossAnnual, 53760), employerSocialSecurity =
\* base x 0.3055, meiWorker = base x 0.0013 and meiEmployer = base x 0.0067
\* (together base x 0.008), so all three stay at their value for 53760
\* when grossAnnual >= 53760.
C25_EmployerAndMEIOnCappedBase ==
    result # Null =>
        /\ QEq(result.employerSocialSecurity,
               QMul(CappedBase(result.grossAnnual), QDec(3055, 4)))
        /\ QEq(result.meiWorker,
               QMul(CappedBase(result.grossAnnual), QDec(13, 4)))
        /\ QEq(result.meiEmployer,
               QMul(CappedBase(result.grossAnnual), QDec(67, 4)))
        /\ QEq(QAdd(result.meiWorker, result.meiEmployer),
               QMul(CappedBase(result.grossAnnual), QDec(8, 3)))
        /\ QGe(result.grossAnnual, QInt(53760)) =>
              /\ QEq(result.employerSocialSecurity, QDec(1642368, 2))
              /\ QEq(result.meiWorker, QDec(69888, 3))
              /\ QEq(result.meiEmployer, QDec(360192, 3))

C25_Witness ==
    /\ result # Null
    /\ QEq(result.grossAnnual, QInt(100000))
    /\ QEq(result.employerSocialSecurity, QDec(1642368, 2))
    /\ QEq(result.meiWorker, QDec(69888, 3))
    /\ QEq(result.meiEmployer, QDec(360192, 3))

\* C26: periodsPerYear is 12 for monthly, 26 for biweekly, 52 for weekly and
\* 365 for daily, and the periodic figures are the annual ones divided by
\* it: grossPeriodic x periodsPerYear = grossAnnual and netPeriodic x
\* periodsPerYear = netAnnual.
C26_PeriodicFigures ==
    result # Null =>
        /\ params.payFrequency \in {"monthly", "biweekly", "weekly", "daily"}
        /\ result.periodsPerYear =
              (CASE params.payFrequency = "monthly" -> 12
                 [] params.payFrequency = "biweekly" -> 26
                 [] params.payFrequency = "weekly" -> 52
                 [] params.payFrequency = "daily" -> 365)
        /\ QEq(QMul(result.grossPeriodic, QInt(result.periodsPerYear)),
               result.grossAnnual)
        /\ QEq(QMul(result.netPeriodic, QInt(result.periodsPerYear)),
               result.netAnnual)

C26_Witness ==
    /\ result # Null
    /\ params.payFrequency = "daily"
    /\ result.periodsPerYear = 365
    /\ QEq(result.grossAnnual, QInt(35000))
    /\ QGt(result.grossPeriodic, QInt(95))
    /\ QLt(result.grossPeriodic, QInt(96))
    /\ QLt(result.netPeriodic, result.grossPeriodic)

\* C27: for every input that passes validation, netAnnual is strictly
\* positive and strictly less than grossAnnual: the worker's deductions are
\* never zero and never reach the gross salary.
C27_NetBetweenZeroAndGross ==
    result # Null =>
        /\ QGt(result.netAnnual, QZero)
        /\ QLt(result.netAnnual, result.grossAnnual)
        /\ QGt(QAdd(WorkerSide(result), result.irpfRetention), QZero)
        /\ QLt(QAdd(WorkerSide(result), result.irpfRetention),
               result.grossAnnual)

C27_Witness ==
    /\ result # Null
    /\ params.region = "CT"
    /\ QEq(result.grossAnnual, QInt(1000000))
    /\ QGt(result.irpfRetention, QInt(450000))
    /\ QGt(result.netAnnual, QInt(500000))
    /\ QLt(result.netAnnual, QInt(550000))

\* netAnnual for the parameters p with the gross salary g
NetAt(p, g) == SalaryResultOf([p EXCEPT !.grossSalary = g]).netAnnual

\* the gross salaries of GrossValues below g
GrossBelow(g) == { h \in GrossValues : QLt(h, g) }

\* the greatest gross salaries of GrossValues below g (none or one)
NextBelow(g) == { h \in GrossBelow(g) : \A k \in GrossBelow(g) : QLe(k, h) }

\* C28: with region, marital status, children and disabilities fixed,
\* netAnnual is strictly increasing in grossSalary: the net stored for a
\* gross salary exceeds the net for the next lower gross salary of
\* GrossValues, across the contribution cap, the solidarity brackets and the
\* IRPF brackets.
C28_NetIncreasingInGross ==
    result # Null =>
        \A h \in NextBelow(params.grossSalary) :
            QLt(NetAt(params, h), result.netAnnual)

C28_Witness ==
    /\ result # Null
    /\ QEq(params.grossSalary, QDec(5890801, 2))
    /\ QGt(result.solidarityQuotaWorker, QZero)
    /\ NextBelow(params.grossSalary) = {QInt(58908)}
    /\ QLt(NetAt(params, QInt(58908)), result.netAnnual)

\* a salary result computed by this step for the current parameters
SalaryStoredNow ==
    /\ result' # Null /\ locals' # Null
    /\ locals'.params = params
    /\ QEq(result'.grossAnnual, params.grossSalary)

\* a compound result of this step that fits the current parameters
CIStoredNow ==
    /\ ciResult' # Null
    /\ Len(ciResult'.yearlyData) = ciParams.years + 1
    /\ QEq(ciResult'.totalDeposits,
           QAdd(ciParams.initialBalance,
                QMul(ciParams.periodicDeposit,
                     QInt(ciParams.frequency * ciParams.years))))

\* C29: in both calculators a calculate step (a step that keeps the
\* parameters) sets the error mapping to the violations of the current
\* parameters, whatever was stored: it is empty exactly when the step stores
\* a result for the current parameters, and non-empty exactly when the
\* stored result is kept; a parameter edit changes neither result nor errors.
C29_ErrorsFollowLastClick ==
    [][ /\ edits' # edits =>
              UNCHANGED <<result, errors, ciResult, ciErrors>>
        /\ (edits' = edits /\ calculator = "salary") =>
              /\ DOMAIN errors' = SalaryViolations(params)
              /\ errors' = NoErrors <=> SalaryViolations(params) = {}
              /\ errors' = NoErrors => SalaryStoredNow
              /\ errors' # NoErrors => result' = result
        /\ (edits' = edits /\ calculator = "compound") =>
              /\ DOMAIN ciErrors' = CIViolations(ciParams)
              /\ ciErrors' = NoErrors <=> CIViolations(ciParams) = {}
              /\ ciErrors' = NoErrors => CIStoredNow
              /\ ciErrors' # NoErrors => ciResult' = ciResult ]_vars

C29_Witness ==
    /\ calculator = "compound"
    /\ edits >= 1
    /\ ciResult # Null
    /\ Len(ciResult.yearlyData) = 11
    /\ ciParams.years <= 0
    /\ DOMAIN ciErrors = {"years"}
    /\ CIViolations(ciParams) = {"years"}

\* the sum of the three values the doughnut plots
DoughnutSum(r) ==
    QAdd(QAdd(doughnutData(r)[1], doughnutData(r)[2]), doughnutData(r)[3])

\* C30 as stated: the three components the chart plots (netAnnual,
\* socialSecurityContribution, irpfRetention) sum to grossAnnual, so their
\* percentages of gross (value / grossAnnual x 100) sum to 100, and the
\* chart's total employer cost equals grossAnnual + employerSocialSecurity.
C30_ChartSumsToGross ==
    result # Null =>
        /\ QEq(DoughnutSum(result), doughnutTotal(result))
        /\ QEq(QMul(DoughnutSum(result), QInt(100)),
               QMul(doughnutTotal(result), QInt(100)))
        /\ QEq(chartCosteTotalEmpresa(result),
               QAdd(result.grossAnnual, result.employerSocialSecurity))

\* the chart for the form's initial parameters: the doughnut sums to
\* 34954.5 of a gross 35000 (the worker's MEI, 45.5, is in no slice), and
\* the chart's employer cost 45647 differs from the panel's 45927
C30_Witness ==
    /\ result # Null
    /\ QEq(result.grossAnnual, QInt(35000))
    /\ QEq(result.meiWorker, QDec(455, 1))
    /\ QEq(DoughnutSum(result), QDec(349545, 1))
    /\ QEq(chartCosteTotalEmpresa(result), QInt(45647))
    /\ QEq(panelTotalCoste(result), QInt(45927))

====
